---- MODULE Spec2Model ----
(***************************************************************************)
(* counterfact: the hot-reload pipeline (Transpiler, ModuleLoader,         *)
(* Registry) and the server lifecycle (start / stop), as state machines.   *)
(*                                                                         *)
(* Paths are sequences of one-character strings, so that String.replace    *)
(* is computed on the characters as JavaScript computes it.                *)
(***************************************************************************)
EXTENDS Integers, Sequences, FiniteSets, TLC

VARIABLES
    \* ---- Transpiler (src/src/transpiler.js)
    sourcePath,        \* this.sourcePath
    destinationPath,   \* this.destinationPath
    watcher,           \* this.watcher: "none" | "scanning" | "watching"
    scanned,           \* files chokidar has reported during its initial scan
    sourceFiles,       \* the source directory: file path -> content
    compiledFiles,     \* the destination directory: file path -> content
    events,            \* chokidar events not yet handed to the "all" listener
    tasks,             \* the asynchronous calls started by the listener
    dispatched,        \* number of "write" / "delete" events dispatched
    changes,           \* number of file-system changes made so far
    faults,            \* number of I/O errors injected so far
    crashed,           \* the process was terminated by an unhandled rejection
    \* ---- destination path computation, applied to one path at a time
    pathIn,
    pathOut,
    \* ---- counterfact(): start / stop (src/unnamed/part_001)
    httpTerminator,    \* the module-level httpTerminator: 0, or a listener
    listeners,         \* the HTTP listeners opened by app.listen
    calls,             \* the start() and stop() calls made so far
    components,        \* per instance: what its transpiler and loader do
    heap,              \* the objects counterfact() has constructed
    wiring,            \* per instance: the objects counterfact() holds
    \* ---- ModuleLoader and Registry
    handlerFiles,      \* the handler files under basePath: file -> exports
    registry,          \* the registered slots
    loader,            \* "new" | "loading" | "loaded" | "watching"
    loaded,            \* the files load() has gone through
    loaderEvents,      \* watcher events not yet handled
    imports,           \* the imports the watcher's handler is awaiting
    emitted,           \* the events the loader has dispatched
    treeChanges,       \* number of changes made to the tree while watching
    seen,              \* history: the (file, method) pairs ever on disk
    \* ---- Script (src/src/typescript-generator/script.ts)
    scriptExports,     \* this.exports: name -> statement (0: no entry)
    scriptImports,     \* this.imports: name -> entry
    scriptCache,       \* this.cache: cache key -> name
    statements,        \* the export statements ever built
    stack,             \* the calls of the Script that are running
    finishedState,     \* the promise of finished(): "none" before a call
    awaited,           \* the statements finished() is still waiting for
    lastCall           \* history: the last export() the cache answered

transpilerVars == <<sourcePath, destinationPath, watcher, scanned, sourceFiles,
                    compiledFiles, events, tasks, dispatched, changes, faults,
                    crashed>>
pathVars == <<pathIn, pathOut>>
serverVars == <<httpTerminator, listeners, calls, components, heap, wiring>>
loaderVars == <<handlerFiles, registry, loader, loaded, loaderEvents,
                imports, emitted, treeChanges, seen>>
scriptVars == <<scriptExports, scriptImports, scriptCache, statements, stack,
                finishedState, awaited, lastCall>>
vars == <<transpilerVars, pathVars, serverVars, loaderVars, scriptVars>>
\* what the Transpiler's actions leave alone
others == <<pathVars, serverVars, loaderVars, scriptVars>>

---------------------------------------------------------------------------
\* Bounds of the model.

\* file-system changes made while the watcher runs
MaxChanges == 3
\* injected I/O errors (mkdir, writeFile, rm failing)
MaxFaults == 1

---------------------------------------------------------------------------
\* Strings.

Min(S) == CHOOSE x \in S : \A y \in S : x <= y

\* the indexes at which pattern occurs in s
Occurrences(s, pattern) ==
    { i \in 1..(Len(s) - Len(pattern) + 1) :
        SubSeq(s, i, i + Len(pattern) - 1) = pattern }

\* String.prototype.replace with a string pattern: the FIRST occurrence only.
\* (the replacement patterns $&, $1, ... are not modelled: no path holds a $)
Replace(s, pattern, replacement) ==
    IF Occurrences(s, pattern) = {}
    THEN s
    ELSE LET i == Min(Occurrences(s, pattern))
         IN  SubSeq(s, 1, i - 1) \o replacement
                 \o SubSeq(s, i + Len(pattern), Len(s))

\* nodePath.join with one argument normalises the path: runs of "/" collapse
\* (the "." and ".." segments it also resolves do not occur in the model)
RECURSIVE Normalize(_)
Normalize(s) ==
    IF Len(s) < 2 THEN s
    ELSE IF s[1] = "/" /\ s[2] = "/" THEN Normalize(Tail(s))
    ELSE <<s[1]>> \o Normalize(Tail(s))

DotTs == <<".", "t", "s">>
DotJs == <<".", "j", "s">>

\* sourcePath.replace(this.sourcePath, this.destinationPath).replace(".ts", ".js")
DestinationPath(from, to, path) ==
    Replace(Replace(path, from, to), DotTs, DotJs)

\* the path transpileFile writes to: the same chain, through nodePath.join
WritePath(from, to, path) == Normalize(DestinationPath(from, to, path))

---------------------------------------------------------------------------
\* File contents.

Absent == [kind |-> "absent", of |-> <<>>, rev |-> 0]

\* the rev-th content of source file f
Source(f, rev) == [kind |-> "source", of |-> f, rev |-> rev]

\* ts.transpileModule(source, ...).outputText
TranspileModule(source) ==
    [kind |-> "outputText", of |-> source.of, rev |-> source.rev]

---------------------------------------------------------------------------
\* The watched tree of the Transpiler specifications.

SrcRoot == <<"s">>
OutRoot == <<"o">>
FileATs == <<"s", "/", "a", ".", "t", "s">>
FileAJs == <<"s", "/", "a", ".", "j", "s">>
FileBMts == <<"s", "/", "b", ".", "m", "t", "s">>

\* two files of different stems
PlainTree == {FileATs, FileBMts}
\* two sibling files of the same stem
SiblingTree == {FileATs, FileAJs}

Watched == DOMAIN sourceFiles

CompiledPaths(tree) ==
    { DestinationPath(SrcRoot, OutRoot, f) : f \in tree }
        \cup { WritePath(SrcRoot, OutRoot, f) : f \in tree }

---------------------------------------------------------------------------
\* Transpiler.

\* the listeners of this.watcher: "all" is attached only after "ready"
\* (watch() awaits once(this.watcher, "ready") before this.watcher.on("all"))
Listeners == IF watcher = "watching" THEN {"all"} ELSE {}

\* an I/O error of the environment may strike while the budget lasts
MayFail == faults < MaxFaults

\* the asynchronous work the "all" listener starts for one event
AllListener(eventName, path) ==
    IF eventName \in {"add", "change"}
    THEN <<[kind |-> "transpileFile", eventName |-> eventName, file |-> path,
            dest |-> WritePath(sourcePath, destinationPath, path),
            pc |-> "ensureDirectoryExists", result |-> Absent]>>
    ELSE IF eventName = "unlink"
    THEN <<[kind |-> "unlink", eventName |-> eventName, file |-> path,
            dest |-> DestinationPath(sourcePath, destinationPath, path),
            pc |-> "rm", result |-> Absent]>>
    ELSE <<>>

\* this.watcher.emit("all", eventName, path): every attached listener runs
EmitAll(eventName, path) ==
    IF "all" \in Listeners
    THEN tasks' = tasks \o AllListener(eventName, path)
    ELSE UNCHANGED tasks

\* watch(): chokidar.watch(...) starts the initial scan
Watch ==
    /\ ~crashed
    /\ watcher = "none"
    /\ watcher' = "scanning"
    /\ UNCHANGED <<sourcePath, destinationPath, scanned, sourceFiles,
                   compiledFiles, events, tasks, dispatched, changes, faults,
                   crashed, others>>

\* the initial scan reports a pre-existing file as an "add" event
ScanAdd(f) ==
    /\ ~crashed
    /\ watcher = "scanning"
    /\ sourceFiles[f] # Absent
    /\ f \notin scanned
    /\ scanned' = scanned \cup {f}
    /\ EmitAll("add", f)
    /\ UNCHANGED <<sourcePath, destinationPath, watcher, sourceFiles,
                   compiledFiles, events, dispatched, changes, faults,
                   crashed, others>>

\* "ready": once(...) resolves, watch() dispatches "write", attaches the
\* "all" listener and resolves
Ready ==
    /\ ~crashed
    /\ watcher = "scanning"
    /\ \A f \in Watched : sourceFiles[f] # Absent => f \in scanned
    /\ watcher' = "watching"
    /\ dispatched' = [dispatched EXCEPT !.write = @ + 1]
    /\ UNCHANGED <<sourcePath, destinationPath, scanned, sourceFiles,
                   compiledFiles, events, tasks, changes, faults, crashed,
                   others>>

\* the environment creates or rewrites a source file; chokidar notices
\* (changes are made once the watcher is ready; the tree before that is Init's)
WriteSource(f) ==
    /\ watcher = "watching"
    /\ changes < MaxChanges
    /\ changes' = changes + 1
    /\ sourceFiles' = [sourceFiles EXCEPT ![f] = Source(f, changes + 1)]
    /\ events' = Append(events,
           [eventName |-> IF sourceFiles[f] = Absent THEN "add" ELSE "change",
            path |-> f])
    /\ UNCHANGED <<sourcePath, destinationPath, watcher, scanned,
                   compiledFiles, tasks, dispatched, faults, crashed, others>>

\* the environment removes a source file; chokidar notices
RemoveSource(f) ==
    /\ watcher = "watching"
    /\ changes < MaxChanges
    /\ sourceFiles[f] # Absent
    /\ changes' = changes + 1
    /\ sourceFiles' = [sourceFiles EXCEPT ![f] = Absent]
    /\ events' = Append(events, [eventName |-> "unlink", path |-> f])
    /\ UNCHANGED <<sourcePath, destinationPath, watcher, scanned,
                   compiledFiles, tasks, dispatched, faults, crashed, others>>

\* chokidar emits its next event, in the order of the changes
Emit ==
    /\ ~crashed
    /\ events # <<>>
    /\ events' = Tail(events)
    /\ EmitAll(Head(events).eventName, Head(events).path)
    /\ UNCHANGED <<sourcePath, destinationPath, watcher, scanned, sourceFiles,
                   compiledFiles, dispatched, changes, faults, crashed,
                   others>>

\* a promise nobody awaits or catches rejects: depending on the Node version
\* and flags the process warns and goes on, or is terminated
Reject(i) ==
    /\ tasks' = [tasks EXCEPT ![i].pc = "rejected"]
    /\ crashed' \in BOOLEAN

\* ensureDirectoryExists: fs.access, and fs.mkdir when that fails
EnsureDirectoryExists(i) ==
    /\ ~crashed
    /\ tasks[i].pc = "ensureDirectoryExists"
    /\ \/ /\ tasks' = [tasks EXCEPT ![i].pc = "readFile"]
          /\ UNCHANGED <<faults, crashed>>
       \/ /\ MayFail
          /\ faults' = faults + 1
          /\ Reject(i)
    /\ UNCHANGED <<sourcePath, destinationPath, watcher, scanned, sourceFiles,
                   compiledFiles, events, dispatched, changes, others>>

\* fs.readFile(sourcePath), then ts.transpileModule on what was read
ReadFile(i) ==
    /\ ~crashed
    /\ tasks[i].pc = "readFile"
    /\ IF sourceFiles[tasks[i].file] = Absent
       THEN Reject(i)
       ELSE /\ tasks' = [tasks EXCEPT
                  ![i].pc = "writeFile",
                  ![i].result = TranspileModule(sourceFiles[tasks[i].file])]
            /\ UNCHANGED crashed
    /\ UNCHANGED <<sourcePath, destinationPath, watcher, scanned, sourceFiles,
                   compiledFiles, events, dispatched, changes, faults,
                   others>>

\* a transpileFile that goes on to dispatch without having written
WriteFileSkipped(i) ==
    /\ ~crashed
    /\ tasks[i].pc = "writeFile"
    /\ tasks' = [tasks EXCEPT ![i].pc = "dispatchEvent"]
    /\ UNCHANGED <<sourcePath, destinationPath, watcher, scanned, sourceFiles,
                   compiledFiles, events, dispatched, changes, faults,
                   crashed, others>>

\* fs.writeFile(destination, result)
WriteFile(i) ==
    /\ ~crashed
    /\ tasks[i].pc = "writeFile"
    /\ \/ /\ compiledFiles' =
                 [compiledFiles EXCEPT ![tasks[i].dest] = tasks[i].result]
          /\ tasks' = [tasks EXCEPT ![i].pc = "dispatchEvent"]
          /\ UNCHANGED <<faults, crashed>>
       \/ /\ MayFail
          /\ faults' = faults + 1
          /\ Reject(i)
          /\ UNCHANGED compiledFiles
    /\ UNCHANGED <<sourcePath, destinationPath, watcher, scanned, sourceFiles,
                   events, dispatched, changes, others>>

\* this.dispatchEvent(new Event("write")) at the end of transpileFile
DispatchWrite(i) ==
    /\ ~crashed
    /\ tasks[i].kind = "transpileFile"
    /\ tasks[i].pc = "dispatchEvent"
    /\ tasks' = [tasks EXCEPT ![i].pc = "done"]
    /\ dispatched' = [dispatched EXCEPT !.write = @ + 1]
    /\ UNCHANGED <<sourcePath, destinationPath, watcher, scanned, sourceFiles,
                   compiledFiles, events, changes, faults, crashed, others>>

\* fs.rm(destinationPath): ENOENT is swallowed, any other error is rethrown
Rm(i) ==
    /\ ~crashed
    /\ tasks[i].pc = "rm"
    /\ \/ /\ compiledFiles' = [compiledFiles EXCEPT ![tasks[i].dest] = Absent]
          /\ tasks' = [tasks EXCEPT ![i].pc = "dispatchEvent"]
          /\ UNCHANGED <<faults, crashed>>
       \/ /\ MayFail
          /\ compiledFiles[tasks[i].dest] # Absent
          /\ faults' = faults + 1
          /\ Reject(i)
          /\ UNCHANGED compiledFiles
    /\ UNCHANGED <<sourcePath, destinationPath, watcher, scanned, sourceFiles,
                   events, dispatched, changes, others>>

\* this.dispatchEvent(new Event("delete")) at the end of the unlink branch
DispatchDelete(i) ==
    /\ ~crashed
    /\ tasks[i].kind = "unlink"
    /\ tasks[i].pc = "dispatchEvent"
    /\ tasks' = [tasks EXCEPT ![i].pc = "done"]
    /\ dispatched' = [dispatched EXCEPT !.delete = @ + 1]
    /\ UNCHANGED <<sourcePath, destinationPath, watcher, scanned, sourceFiles,
                   compiledFiles, events, changes, faults, crashed, others>>

---------------------------------------------------------------------------
\* counterfact(): the instances of one process, their start() and stop().

\* counterfact instances created in the process
NumInstances == 2
\* start() and stop() calls made in all
MaxCalls == 3

Instances == 1..NumInstances

\* the methods class Transpiler defines (it extends EventTarget)
TranspilerMethods == {"constructor", "watch", "transpileFile"}

\* the methods of ModuleLoader its callers use
ModuleLoaderMethods == {"load", "watch", "stopWatching"}

HasMethod(step) ==
    IF step.object = "transpiler"
    THEN step.method \in TranspilerMethods
    ELSE step.method \in ModuleLoaderMethods

\* startCounterfact with the loader loading before the transpiler watches
StartCounterfactLoadFirst ==
    << [object |-> "moduleLoader", method |-> "load"],
       [object |-> "transpiler", method |-> "watch"],
       [object |-> "moduleLoader", method |-> "watch"] >>

\* startCounterfact: the calls it awaits, in order
StartCounterfactSteps ==
    << [object |-> "transpiler", method |-> "watch"],
       [object |-> "moduleLoader", method |-> "load"],
       [object |-> "moduleLoader", method |-> "watch"] >>

\* stopCounterfact: the calls it awaits, in order
StopCounterfactSteps ==
    << [object |-> "transpiler", method |-> "stopWatching"],
       [object |-> "moduleLoader", method |-> "stopWatching"] >>

\* what a component's method does to the instance when it resolves
Effect(component, step) ==
    CASE step.object = "transpiler" /\ step.method = "watch" ->
            [component EXCEPT !.transpilerWatching = TRUE]
      [] step.object = "transpiler" /\ step.method = "stopWatching" ->
            [component EXCEPT !.transpilerWatching = FALSE]
      [] step.object = "moduleLoader" /\ step.method = "load" ->
            [component EXCEPT !.loaded = TRUE]
      [] step.object = "moduleLoader" /\ step.method = "watch" ->
            [component EXCEPT !.loaderWatching = TRUE]
      [] step.object = "moduleLoader" /\ step.method = "stopWatching" ->
            [component EXCEPT !.loaderWatching = FALSE]
      [] OTHER -> component

\* an object: its class and the registries its constructor was given
\* (0: none)
New(class, registryRef, contextRegistryRef) ==
    [class |-> class, registry |-> registryRef,
     contextRegistry |-> contextRegistryRef]

\* an instance counterfact() has not been called for
NotBuilt ==
    [registry |-> 0, contextRegistry |-> 0, dispatcher |-> 0,
     transpiler |-> 0, moduleLoader |-> 0, returned |-> 0]

\* counterfact() giving the ModuleLoader a Registry of its own
CounterfactOwnRegistry(inst) ==
    /\ wiring[inst] = NotBuilt
    /\ \A i \in 1..(inst - 1) : wiring[i] # NotBuilt
    /\ LET base == Len(heap)
       IN  /\ heap' = heap \o
                 << New("Registry", 0, 0),
                    New("ContextRegistry", 0, 0),
                    New("Dispatcher", base + 1, base + 2),
                    New("Transpiler", 0, 0),
                    New("Registry", 0, 0),
                    New("ModuleLoader", base + 5, base + 2) >>
           /\ wiring' = [wiring EXCEPT ![inst] =
                 [registry |-> base + 1, contextRegistry |-> base + 2,
                  dispatcher |-> base + 3, transpiler |-> base + 4,
                  moduleLoader |-> base + 6, returned |-> base + 2]]
    /\ UNCHANGED <<httpTerminator, listeners, calls, components,
                   transpilerVars, pathVars, loaderVars, scriptVars>>

\* counterfact(config): the objects it constructs, in order, and the
\* contextRegistry it returns (instances are numbered in the order of the
\* calls that build them)
Counterfact(inst) ==
    /\ wiring[inst] = NotBuilt
    /\ \A i \in 1..(inst - 1) : wiring[i] # NotBuilt
    /\ LET base == Len(heap)
       IN  /\ heap' = heap \o
                 << New("Registry", 0, 0),
                    New("ContextRegistry", 0, 0),
                    New("Dispatcher", base + 1, base + 2),
                    New("Transpiler", 0, 0),
                    New("ModuleLoader", base + 1, base + 2) >>
           /\ wiring' = [wiring EXCEPT ![inst] =
                 [registry |-> base + 1, contextRegistry |-> base + 2,
                  dispatcher |-> base + 3, transpiler |-> base + 4,
                  moduleLoader |-> base + 5, returned |-> base + 2]]
    /\ UNCHANGED <<httpTerminator, listeners, calls, components,
                   transpilerVars, pathVars, loaderVars, scriptVars>>

\* start() is called on an instance: it calls startCounterfact and awaits
Start(inst) ==
    /\ wiring[inst] # NotBuilt
    /\ Len(calls) < MaxCalls
    /\ calls' = Append(calls, [fn |-> "start", inst |-> inst, pc |-> 1,
                               log |-> <<>>, state |-> "pending"])
    /\ UNCHANGED <<httpTerminator, listeners, components, heap, wiring,
                   transpilerVars, pathVars, loaderVars, scriptVars>>

\* the call startCounterfact is awaiting resolves
StartAwaitResolves(c) ==
    /\ calls[c].fn = "start"
    /\ calls[c].state = "pending"
    /\ calls[c].pc <= Len(StartCounterfactSteps)
    /\ LET step == StartCounterfactSteps[calls[c].pc]
       IN  /\ components' = [components EXCEPT
                 ![calls[c].inst] = Effect(@, step)]
           /\ calls' = [calls EXCEPT ![c].pc = @ + 1,
                                     ![c].log = Append(@, step)]
    /\ UNCHANGED <<httpTerminator, listeners, heap, wiring, transpilerVars,
                   pathVars, loaderVars, scriptVars>>

\* the call startCounterfact is awaiting rejects: start() rejects with it
StartAwaitRejects(c) ==
    /\ calls[c].fn = "start"
    /\ calls[c].state = "pending"
    /\ calls[c].pc <= Len(StartCounterfactSteps)
    /\ calls' = [calls EXCEPT ![c].state = "rejected"]
    /\ UNCHANGED <<httpTerminator, listeners, components, heap, wiring,
                   transpilerVars, pathVars, loaderVars, scriptVars>>

\* after startCounterfact: app.listen, then httpTerminator is assigned
Listen(c) ==
    /\ calls[c].fn = "start"
    /\ calls[c].state = "pending"
    /\ calls[c].pc = Len(StartCounterfactSteps) + 1
    /\ listeners' = Append(listeners,
           [call |-> c, inst |-> calls[c].inst, open |-> TRUE])
    /\ httpTerminator' = Len(listeners) + 1
    /\ calls' = [calls EXCEPT ![c].state = "resolved"]
    /\ UNCHANGED <<components, heap, wiring, transpilerVars, pathVars,
                   loaderVars, scriptVars>>

\* stop() is called on an instance: it calls stopCounterfact and awaits
Stop(inst) ==
    /\ wiring[inst] # NotBuilt
    /\ Len(calls) < MaxCalls
    /\ calls' = Append(calls, [fn |-> "stop", inst |-> inst, pc |-> 1,
                               log |-> <<>>, state |-> "pending"])
    /\ UNCHANGED <<httpTerminator, listeners, components, heap, wiring,
                   transpilerVars, pathVars, loaderVars, scriptVars>>

\* stop() goes on: the next call of stopCounterfact (calling a method the
\* object does not have throws a TypeError, which rejects stop()), then
\* httpTerminator?.terminate()
StopStep(c) ==
    /\ calls[c].fn = "stop"
    /\ calls[c].state = "pending"
    /\ IF calls[c].pc <= Len(StopCounterfactSteps)
       THEN LET step == StopCounterfactSteps[calls[c].pc]
            IN  IF HasMethod(step)
                THEN /\ components' = [components EXCEPT
                           ![calls[c].inst] = Effect(@, step)]
                     /\ calls' = [calls EXCEPT ![c].pc = @ + 1,
                                               ![c].log = Append(@, step)]
                     /\ UNCHANGED listeners
                ELSE /\ calls' = [calls EXCEPT ![c].state = "rejected"]
                     /\ UNCHANGED <<components, listeners>>
       ELSE /\ listeners' =
                  IF httpTerminator = 0
                  THEN listeners
                  ELSE [listeners EXCEPT ![httpTerminator].open = FALSE]
            /\ calls' = [calls EXCEPT
                  ![c].state = "resolved",
                  ![c].log = Append(@, [object |-> "httpTerminator",
                                        method |-> "terminate"])]
            /\ UNCHANGED components
    /\ UNCHANGED <<httpTerminator, heap, wiring, transpilerVars, pathVars,
                   loaderVars, scriptVars>>

\* no instance started, no listener, httpTerminator undefined
ServerInit ==
    /\ httpTerminator = 0
    /\ listeners = <<>>
    /\ calls = <<>>
    /\ components = [i \in Instances |->
          [transpilerWatching |-> FALSE, loaded |-> FALSE,
           loaderWatching |-> FALSE]]
    /\ heap = <<>>
    /\ wiring = [i \in Instances |-> NotBuilt]

NextServer ==
    \/ \E inst \in Instances : Counterfact(inst)
    \/ \E inst \in Instances : Start(inst)
    \/ \E c \in DOMAIN calls : StartAwaitResolves(c)
    \/ \E c \in DOMAIN calls : StartAwaitRejects(c)
    \/ \E c \in DOMAIN calls : Listen(c)
    \/ \E inst \in Instances : Stop(inst)
    \/ \E c \in DOMAIN calls : StopStep(c)

\* no ModuleLoader constructed
LoaderIdle ==
    /\ handlerFiles = <<>>
    /\ registry = {}
    /\ loader = "new"
    /\ loaded = {}
    /\ loaderEvents = <<>>
    /\ imports = <<>>
    /\ emitted = <<>>
    /\ treeChanges = 0
    /\ seen = {}

\* a Transpiler that is constructed and never watches
TranspilerIdle ==
    /\ sourcePath = SrcRoot
    /\ destinationPath = OutRoot
    /\ watcher = "none"
    /\ scanned = {}
    /\ sourceFiles = <<>>
    /\ compiledFiles = <<>>
    /\ events = <<>>
    /\ tasks = <<>>
    /\ dispatched = [write |-> 0, delete |-> 0]
    /\ changes = 0
    /\ faults = 0
    /\ crashed = FALSE

---------------------------------------------------------------------------
\* Registry and ModuleLoader (sections 4.1, 4.3 and 4.4 of the design).

\* changes made to the handler tree while the loader watches it
MaxTreeChanges == 2

Methods == {"GET", "POST"}

\* what a handler file may export
ExportSets == { {"GET"}, {"GET", "POST"} }

\* what the parameter-named files of the model export
ParameterExportSets == { {"GET"} }

NoFile == [exists |-> FALSE, exports |-> {}]
Module(exports) == [exists |-> TRUE, exports |-> exports]

\* the handler files of the model, relative to basePath
FileH == <<"h", ".", "m", "j", "s">>
FileLA == <<"l", "/", "a", ".", "m", "j", "s">>
FileParamI == <<"{", "i", "}", ".", "m", "j", "s">>
FileParamN == <<"{", "n", "}", ".", "t", "s">>
HandlerFiles == {FileH, FileLA, FileParamI, FileParamN}

\* the concrete paths requests are resolved for
RequestPaths ==
    { <<"/", "h">>, <<"/", "g">>, <<"/", "l">>, <<"/", "l", "/", "a">>,
      <<"/", "{", "i", "}">>, <<"/", "{", "n", "}">> }

Max(S) == CHOOSE x \in S : \A y \in S : x >= y

\* s.split("/")
RECURSIVE Split(_)
Split(s) ==
    IF s = <<>> THEN << <<>> >>
    ELSE LET rest == Split(Tail(s))
         IN  IF Head(s) = "/"
             THEN << <<>> >> \o rest
             ELSE << <<Head(s)>> \o Head(rest) >> \o Tail(rest)

\* the path without its extension: what precedes the last "."
StripExtension(s) ==
    LET dots == { i \in DOMAIN s : s[i] = "." }
    IN  IF dots = {} THEN s ELSE SubSeq(s, 1, Max(dots) - 1)

\* a segment wrapped in the parameter marker
IsParameter(segment) ==
    /\ Len(segment) >= 2
    /\ segment[1] = "{"
    /\ segment[Len(segment)] = "}"

\* a template made of the file's stem alone, its directories dropped
RouteOfStem(file) ==
    LET segments == Split(StripExtension(file))
    IN  << segments[Len(segments)] >>

\* the PathTemplate of a handler file: its directories and its stem
Route(file) == Split(StripExtension(file))

\* the segments of a concrete request path ("/a/b" -> a, b)
Segments(path) == Tail(Split(path))

\* 4.1: literal segments match exactly, a parameter any non-empty segment
Matches(template, segments) ==
    /\ Len(template) = Len(segments)
    /\ \A i \in DOMAIN template :
          \/ template[i] = segments[i]
          \/ IsParameter(template[i]) /\ segments[i] # <<>>

ParameterCount(template) ==
    Cardinality({ i \in DOMAIN template : IsParameter(template[i]) })

\* 4.1 / 4.3: two templates that can match one path and tie on specificity
Conflicting(t, u) ==
    /\ t # u
    /\ Len(t) = Len(u)
    /\ ParameterCount(t) = ParameterCount(u)
    /\ \A i \in DOMAIN t :
          t[i] = u[i] \/ IsParameter(t[i]) \/ IsParameter(u[i])

\* 4.3 register: fails with RouteConflict, leaving the registry untouched,
\* or inserts the slot, replacing the one of the same RouteKey
HasConflict(reg, method, template) ==
    \E slot \in reg :
        slot.method = method /\ Conflicting(slot.template, template)

Register(reg, method, template, file) ==
    IF HasConflict(reg, method, template)
    THEN reg
    ELSE { slot \in reg :
             ~(slot.method = method /\ slot.template = template) }
         \cup { [method |-> method, template |-> template, file |-> file] }

\* 4.3 unregister: removes the slot; a no-op when absent
Unregister(reg, method, template) ==
    { slot \in reg : ~(slot.method = method /\ slot.template = template) }

\* 4.3 resolve
Resolve(reg, method, path) ==
    LET anyMethod == { slot \in reg : Matches(slot.template, Segments(path)) }
        matching == { slot \in anyMethod : slot.method = method }
    IN  IF anyMethod = {} THEN [status |-> "NoRouteMatch", slots |-> {}]
        ELSE IF matching = {}
        THEN [status |-> "MethodNotAllowed", slots |-> {}]
        ELSE [status |-> "ok",
              slots |-> { slot \in matching :
                  \A other \in matching :
                      ParameterCount(slot.template)
                          <= ParameterCount(other.template) }]

\* registry.exists(method, path)
Exists(reg, method, path) == Resolve(reg, method, path).status = "ok"

\* the registry after a module of a file was loaded: the slots of the
\* file's template are replaced by one slot per exported method
RECURSIVE RegisterAll(_, _, _, _)
RegisterAll(reg, methods, template, file) ==
    IF methods = {} THEN reg
    ELSE LET method == CHOOSE x \in methods : TRUE
         IN  RegisterAll(Register(reg, method, template, file),
                         methods \ {method}, template, file)

RECURSIVE UnregisterAll(_, _, _)
UnregisterAll(reg, methods, template) ==
    IF methods = {} THEN reg
    ELSE LET method == CHOOSE x \in methods : TRUE
         IN  UnregisterAll(Unregister(reg, method, template),
                           methods \ {method}, template)

AddModule(reg, file, module) ==
    RegisterAll(UnregisterAll(reg, Methods \ module.exports, Route(file)),
                module.exports, Route(file), file)

\* every exported method of the file ended up in its slot
Registered(reg, file, module) ==
    \A method \in module.exports :
        [method |-> method, template |-> Route(file), file |-> file] \in reg

\* the modules file f may hold
ModulesOf(f) ==
    { Module(e) : e \in IF ParameterCount(Route(f)) = 0
                        THEN ExportSets ELSE ParameterExportSets }

\* the sequence without its i-th element
Without(seq, i) == SubSeq(seq, 1, i - 1) \o SubSeq(seq, i + 1, Len(seq))

\* loader.load() starts going through the files under basePath
Load ==
    /\ loader = "new"
    /\ loader' = "loading"
    /\ UNCHANGED <<handlerFiles, registry, loaded, loaderEvents, imports,
                   emitted, treeChanges, seen, transpilerVars, pathVars,
                   serverVars, scriptVars>>

\* load() imports one file and registers what it exports
LoadFile(f) ==
    /\ loader = "loading"
    /\ handlerFiles[f].exists
    /\ f \notin loaded
    /\ loaded' = loaded \cup {f}
    /\ registry' = AddModule(registry, f, handlerFiles[f])
    /\ UNCHANGED <<handlerFiles, loader, loaderEvents, imports, emitted,
                   treeChanges, seen, transpilerVars, pathVars, serverVars, scriptVars>>

\* load() resolves once every file has been gone through
LoadResolves ==
    /\ loader = "loading"
    /\ \A f \in HandlerFiles : handlerFiles[f].exists => f \in loaded
    /\ loader' = "loaded"
    /\ UNCHANGED <<handlerFiles, registry, loaded, loaderEvents, imports,
                   emitted, treeChanges, seen, transpilerVars, pathVars,
                   serverVars, scriptVars>>

\* loader.watch() resolves: the watcher is ready and its handler attached
LoaderWatch ==
    /\ loader = "loaded"
    /\ loader' = "watching"
    /\ UNCHANGED <<handlerFiles, registry, loaded, loaderEvents, imports,
                   emitted, treeChanges, seen, transpilerVars, pathVars,
                   serverVars, scriptVars>>

\* a handler file is added or rewritten at runtime
PutHandler(f, exports) ==
    /\ loader = "watching"
    /\ treeChanges < MaxTreeChanges
    /\ Module(exports) \in ModulesOf(f)
    /\ treeChanges' = treeChanges + 1
    /\ handlerFiles' = [handlerFiles EXCEPT ![f] = Module(exports)]
    /\ seen' = seen \cup { <<f, method>> : method \in exports }
    /\ loaderEvents' = Append(loaderEvents,
           [eventName |-> IF handlerFiles[f].exists THEN "change" ELSE "add",
            path |-> f])
    /\ UNCHANGED <<registry, loader, loaded, imports, emitted,
                   transpilerVars, pathVars, serverVars, scriptVars>>

\* a handler file is deleted at runtime
DeleteHandler(f) ==
    /\ loader = "watching"
    /\ treeChanges < MaxTreeChanges
    /\ handlerFiles[f].exists
    /\ treeChanges' = treeChanges + 1
    /\ handlerFiles' = [handlerFiles EXCEPT ![f] = NoFile]
    /\ loaderEvents' = Append(loaderEvents, [eventName |-> "unlink", path |-> f])
    /\ UNCHANGED <<registry, loader, loaded, imports, emitted, seen,
                   transpilerVars, pathVars, serverVars, scriptVars>>

\* the watcher's handler takes the next event: add/change start the import
\* of the file, unlink unregisters its routes and dispatches "remove"
HandleEvent ==
    /\ loaderEvents # <<>>
    /\ loaderEvents' = Tail(loaderEvents)
    /\ LET event == Head(loaderEvents)
       IN  IF event.eventName = "unlink"
           THEN /\ registry' =
                      UnregisterAll(registry, Methods, Route(event.path))
                /\ emitted' = Append(emitted,
                      [type |-> "remove", file |-> event.path, exports |-> {}])
                /\ UNCHANGED imports
           ELSE /\ imports' = Append(imports,
                      [file |-> event.path, state |-> "importing"])
                /\ UNCHANGED <<registry, emitted>>
    /\ UNCHANGED <<handlerFiles, loader, loaded, treeChanges, seen,
                   transpilerVars, pathVars, serverVars, scriptVars>>

\* an import that dispatches "add" without registering the module
ImportSettlesUnregistered(i) ==
    /\ imports[i].state = "importing"
    /\ handlerFiles[imports[i].file].exists
    /\ emitted' = Append(emitted,
          [type |-> "add", file |-> imports[i].file,
           exports |-> handlerFiles[imports[i].file].exports])
    /\ imports' = Without(imports, i)
    /\ UNCHANGED <<handlerFiles, registry, loader, loaded, loaderEvents,
                   treeChanges, seen, transpilerVars, pathVars, serverVars, scriptVars>>

\* an import settles: the module is registered and then "add" is
\* dispatched; a file that is gone, or a RouteConflict, dispatches nothing
ImportSettles(i) ==
    /\ imports[i].state = "importing"
    /\ LET file == imports[i].file
           module == handlerFiles[file]
           after == AddModule(registry, file, module)
       IN  IF module.exists /\ Registered(after, file, module)
           THEN /\ registry' = after
                /\ emitted' = Append(emitted,
                      [type |-> "add", file |-> file,
                       exports |-> module.exports])
                /\ imports' = Without(imports, i)
           ELSE /\ imports' = Without(imports, i)
                /\ UNCHANGED <<registry, emitted>>
    /\ UNCHANGED <<handlerFiles, loader, loaded, loaderEvents, treeChanges,
                   seen, transpilerVars, pathVars, serverVars, scriptVars>>

\* new ModuleLoader(basePath, registry) over any tree of handler files
LoaderInit ==
    /\ handlerFiles \in
          [HandlerFiles -> {NoFile} \cup { Module(e) : e \in ExportSets }]
    /\ \A f \in HandlerFiles : handlerFiles[f] \in {NoFile} \cup ModulesOf(f)
    /\ seen = { <<f, method>> \in HandlerFiles \X Methods :
                  method \in handlerFiles[f].exports }
    /\ registry = {}
    /\ loader = "new"
    /\ loaded = {}
    /\ loaderEvents = <<>>
    /\ imports = <<>>
    /\ emitted = <<>>
    /\ treeChanges = 0

NextLoader ==
    \/ Load
    \/ \E f \in HandlerFiles : LoadFile(f)
    \/ LoadResolves
    \/ LoaderWatch
    \/ \E f \in HandlerFiles, e \in ExportSets : PutHandler(f, e)
    \/ \E f \in HandlerFiles : DeleteHandler(f)
    \/ HandleEvent
    \/ \E i \in DOMAIN imports : ImportSettles(i)

---------------------------------------------------------------------------
\* Script (src/src/typescript-generator/script.ts): one Script of a
\* Repository, and the coders that are exported by it and imported into it.

\* entries (exports and imports together) a Script is asked to hold
MaxEntries == 2

\* the coders, by what tells their ids apart
Coders == {1, 2}

\* the path of the Script
ThisPath == "components/A.ts"

\* coder.modulePath(): the script the coder wants to be exported by
ModulePath(coder) == IF coder = 1 THEN ThisPath ELSE "schemas/A.ts"

\* the names a coder offers, in order: name, name2, name3, ... (both coders
\* are for a requirement whose url ends in A)
Names(coder) ==
    [k \in 1..MaxEntries |-> [base |-> "A", index |-> k]]

NameSet == UNION { { Names(c)[k] : k \in DOMAIN Names(c) } : c \in Coders }

\* no name: undefined
NoName == [base |-> "", index |-> 0]

\* no entry under a name of the imports map
NoImport ==
    [id |-> 0, isType |-> FALSE, isDefault |-> FALSE, name |-> NoName,
     script |-> ""]

\* the cache key of export(): "default", or `${coder.id}:${isType}`
ExportKey(coder, isType, isDefault) ==
    IF isDefault
    THEN [fn |-> "export", id |-> 0, isType |-> FALSE, isDefault |-> TRUE]
    ELSE [fn |-> "export", id |-> coder, isType |-> isType,
          isDefault |-> FALSE]

\* the cache key of import(): `${coder.id}@${modulePath}:${isType}:${isDefault}`
ImportKey(coder, isType, isDefault) ==
    [fn |-> "import", id |-> coder, isType |-> isType,
     isDefault |-> isDefault]

ExportKeys ==
    { ExportKey(c, t, d) : c \in Coders, t \in BOOLEAN, d \in BOOLEAN }

ImportKeys ==
    { ImportKey(c, t, d) : c \in Coders, t \in BOOLEAN, d \in BOOLEAN }

\* no export() has been answered by the cache yet
NoCall == [key |-> ExportKey(1, FALSE, TRUE), name |-> NoName]

\* a cache that never answers
CachedNever(key) == NoName

\* this.cache.has(cacheKey) / this.cache.get(cacheKey)
Cached(key) == scriptCache[key]

\* firstUniqueName: the first offered name that neither map has
FirstUniqueName(coder) ==
    LET free == { k \in DOMAIN Names(coder) :
                    /\ scriptImports[Names(coder)[k]] = NoImport
                    /\ scriptExports[Names(coder)[k]] = 0 }
    IN  IF free = {} THEN NoName ELSE Names(coder)[Min(free)]

\* the calls of the Script that are running: the innermost is the last
Frame(fn, coder, isType, isDefault, name, statement) ==
    [fn |-> fn, coder |-> coder, isType |-> isType, isDefault |-> isDefault,
     name |-> name, statement |-> statement]

Running(fn) == { i \in DOMAIN stack : stack[i].fn = fn }

\* the entries set so far and those the running calls are about to set
Entries ==
    Len(statements)
        + Cardinality({ n \in NameSet : scriptImports[n] # NoImport })
        + Cardinality(Running("export")) + Cardinality(Running("import"))

\* a call can be made from outside, or by a coder while its
\* typeDeclaration / beforeExport (in export) or its write (in .then) runs
CanCall ==
    \/ stack = <<>>
    \/ /\ stack # <<>>
       /\ stack[Len(stack)].fn \in {"export", "write"}

\* the exportStatement export() builds, coder.delegate() pending
ExportStatement(frame) ==
    [id |-> frame.coder, isType |-> frame.isType,
     isDefault |-> frame.isDefault, key |-> frame.name, name |-> NoName,
     code |-> "undefined", error |-> FALSE, done |-> FALSE,
     promise |-> "pending"]

\* the entry import() sets
ImportStatement(coder, isType, isDefault, exportedName) ==
    [id |-> coder, isType |-> isType, isDefault |-> isDefault,
     name |-> exportedName, script |-> ModulePath(coder)]

\* export(coder, isType, isDefault), exportDefault, exportType: up to the
\* calls of coder.typeDeclaration and coder.beforeExport
Export(coder, isType, isDefault) ==
    /\ CanCall
    /\ LET key == ExportKey(coder, isType, isDefault)
       IN  IF Cached(key) # NoName
           THEN /\ lastCall' = [key |-> key, name |-> Cached(key)]
                /\ UNCHANGED <<scriptCache, stack>>
           ELSE /\ Entries < MaxEntries
                /\ FirstUniqueName(coder) # NoName
                /\ scriptCache' = [scriptCache EXCEPT
                      ![key] = FirstUniqueName(coder)]
                /\ stack' = Append(stack,
                      Frame("export", coder, isType, isDefault,
                            FirstUniqueName(coder), 0))
                /\ UNCHANGED lastCall
    /\ UNCHANGED <<scriptExports, scriptImports, statements, finishedState,
                   awaited, transpilerVars, pathVars, serverVars, loaderVars>>

\* export() goes on after typeDeclaration and beforeExport: coder.delegate()
\* is called, the statement is set under its name and the name returned;
\* when import() made the call it sets its entry and returns in turn
ExportReturns ==
    /\ stack # <<>>
    /\ LET frame == stack[Len(stack)]
           caller == IF Len(stack) > 1
                     THEN stack[Len(stack) - 1]
                     ELSE Frame("none", 0, FALSE, FALSE, NoName, 0)
       IN  /\ frame.fn = "export"
           /\ statements' = Append(statements, ExportStatement(frame))
           /\ scriptExports' = [scriptExports EXCEPT
                 ![frame.name] = Len(statements) + 1]
           /\ IF caller.fn = "import"
              THEN /\ scriptImports' = [scriptImports EXCEPT
                         ![caller.name] = ImportStatement(caller.coder,
                             caller.isType, caller.isDefault, frame.name)]
                   /\ stack' = SubSeq(stack, 1, Len(stack) - 2)
              ELSE /\ stack' = SubSeq(stack, 1, Len(stack) - 1)
                   /\ UNCHANGED scriptImports
    /\ UNCHANGED <<scriptCache, finishedState, awaited, lastCall,
                   transpilerVars, pathVars, serverVars, loaderVars>>

\* import(coder, isType, isDefault), importType, importDefault: the script
\* of coder.modulePath() exports the coder; when that is this script, its
\* export() runs here (another script, fresh, exports it under its first
\* name)
Import(coder, isType, isDefault) ==
    /\ CanCall
    /\ LET key == ImportKey(coder, isType, isDefault)
           exportKey == ExportKey(coder, isType, isDefault)
           name == FirstUniqueName(coder)
       IN  IF scriptCache[key] # NoName
           THEN UNCHANGED <<scriptCache, scriptImports, stack>>
           ELSE /\ Entries < MaxEntries
                /\ name # NoName
                /\ IF ModulePath(coder) # ThisPath
                   THEN /\ scriptCache' = [scriptCache EXCEPT ![key] = name]
                        /\ scriptImports' = [scriptImports EXCEPT
                              ![name] = ImportStatement(coder, isType,
                                            isDefault, Names(coder)[1])]
                        /\ UNCHANGED stack
                   ELSE IF Cached(exportKey) # NoName
                   THEN /\ scriptCache' = [scriptCache EXCEPT ![key] = name]
                        /\ scriptImports' = [scriptImports EXCEPT
                              ![name] = ImportStatement(coder, isType,
                                            isDefault, Cached(exportKey))]
                        /\ UNCHANGED stack
                   ELSE /\ Entries + 1 < MaxEntries
                        /\ scriptCache' = [scriptCache EXCEPT
                              ![key] = name, ![exportKey] = name]
                        /\ stack' = stack \o
                              << Frame("import", coder, isType, isDefault,
                                       name, 0),
                                 Frame("export", coder, isType, isDefault,
                                       name, 0) >>
                        /\ UNCHANGED scriptImports
    /\ UNCHANGED <<scriptExports, statements, finishedState, awaited,
                   lastCall, transpilerVars, pathVars, serverVars, loaderVars>>

\* coder.delegate() resolves: .then sets the statement's name and calls
\* availableCoder.write(this)
DelegateResolves(s) ==
    /\ stack = <<>>
    /\ statements[s].promise = "pending"
    /\ statements' = [statements EXCEPT ![s].name = statements[s].key,
                                        ![s].promise = "then"]
    /\ stack' = << Frame("write", statements[s].id, statements[s].isType,
                         statements[s].isDefault, statements[s].key, s) >>
    /\ UNCHANGED <<scriptExports, scriptImports, scriptCache, finishedState,
                   awaited, lastCall, transpilerVars, pathVars, serverVars,
                   loaderVars>>

\* availableCoder.write(this) returns the code; .finally: the statement is
\* done and its promise fulfilled
WriteReturns ==
    /\ stack # <<>>
    /\ stack[Len(stack)].fn = "write"
    /\ statements' = [statements EXCEPT
          ![stack[Len(stack)].statement].code = "code",
          ![stack[Len(stack)].statement].done = TRUE,
          ![stack[Len(stack)].statement].promise = "fulfilled"]
    /\ stack' = SubSeq(stack, 1, Len(stack) - 1)
    /\ awaited' = awaited \ {stack[Len(stack)].statement}
    /\ UNCHANGED <<scriptExports, scriptImports, scriptCache, finishedState,
                   lastCall, transpilerVars, pathVars, serverVars,
                   loaderVars>>

\* availableCoder.write(this) throws: .catch stores the error and an error
\* comment as the code; .finally: the statement is done
WriteThrows ==
    /\ stack # <<>>
    /\ stack[Len(stack)].fn = "write"
    /\ statements' = [statements EXCEPT
          ![stack[Len(stack)].statement].code = "error comment",
          ![stack[Len(stack)].statement].error = TRUE,
          ![stack[Len(stack)].statement].done = TRUE,
          ![stack[Len(stack)].statement].promise = "fulfilled"]
    /\ stack' = SubSeq(stack, 1, Len(stack) - 1)
    /\ awaited' = awaited \ {stack[Len(stack)].statement}
    /\ UNCHANGED <<scriptExports, scriptImports, scriptCache, finishedState,
                   lastCall, transpilerVars, pathVars, serverVars,
                   loaderVars>>

\* coder.delegate() rejects: .then is skipped, .catch stores the error and
\* an error comment as the code; .finally: the statement is done
DelegateRejects(s) ==
    /\ stack = <<>>
    /\ statements[s].promise = "pending"
    /\ statements' = [statements EXCEPT ![s].code = "error comment",
                                        ![s].error = TRUE,
                                        ![s].done = TRUE,
                                        ![s].promise = "fulfilled"]
    /\ awaited' = awaited \ {s}
    /\ UNCHANGED <<scriptExports, scriptImports, scriptCache, stack,
                   finishedState, lastCall, transpilerVars,
                   pathVars, serverVars, loaderVars>>

\* finished(): Promise.all over the promises of the statements the exports
\* map holds at the call
Finished ==
    /\ stack = <<>>
    /\ finishedState = "none"
    /\ finishedState' = "pending"
    /\ awaited' = { s \in { scriptExports[n] : n \in NameSet } \ {0} :
                       statements[s].promise # "fulfilled" }
    /\ UNCHANGED <<scriptExports, scriptImports, scriptCache, statements,
                   stack, lastCall, transpilerVars, pathVars, serverVars,
                   loaderVars>>

\* the promise of finished() resolves: every promise it awaited is fulfilled
FinishedResolves ==
    /\ stack = <<>>
    /\ finishedState = "pending"
    /\ awaited = {}
    /\ finishedState' = "resolved"
    /\ UNCHANGED <<scriptExports, scriptImports, scriptCache, statements,
                   stack, awaited, lastCall, transpilerVars, pathVars,
                   serverVars, loaderVars>>

\* isInProgress(): some statement of the exports map is not done
IsInProgress ==
    \E n \in NameSet :
        /\ scriptExports[n] # 0
        /\ ~statements[scriptExports[n]].done

\* new Script(repository, path)
ScriptInit ==
    /\ scriptExports = [n \in NameSet |-> 0]
    /\ scriptImports = [n \in NameSet |-> NoImport]
    /\ scriptCache = [k \in ExportKeys \cup ImportKeys |-> NoName]
    /\ statements = <<>>
    /\ stack = <<>>
    /\ finishedState = "none"
    /\ awaited = {}
    /\ lastCall = NoCall

NextScript ==
    \/ \E c \in Coders, t \in BOOLEAN : Export(c, t, FALSE)
    \/ \E c \in Coders : Export(c, FALSE, TRUE)
    \/ ExportReturns
    \/ \E c \in Coders : Import(c, FALSE, FALSE)
    \/ \E c \in Coders : Import(c, TRUE, FALSE)
    \/ \E c \in Coders : Import(c, FALSE, TRUE)
    \/ \E s \in DOMAIN statements : DelegateResolves(s)
    \/ WriteReturns
    \/ WriteThrows
    \/ \E s \in DOMAIN statements : DelegateRejects(s)
    \/ Finished
    \/ FinishedResolves

PathIdle ==
    /\ pathIn = [dir |-> <<>>, stem |-> <<>>, ext |-> <<>>]
    /\ pathOut = [listener |-> <<>>, written |-> <<>>]

\* new Transpiler(SrcRoot, OutRoot) over a tree, any of whose files may
\* exist before watch() is called
TranspilerInit(tree) ==
    /\ sourcePath = SrcRoot
    /\ destinationPath = OutRoot
    /\ watcher = "none"
    /\ scanned = {}
    /\ sourceFiles \in [tree -> {Absent} \cup {Source(f, 0) : f \in tree}]
    /\ \A f \in tree : sourceFiles[f] \in {Absent, Source(f, 0)}
    /\ compiledFiles = [p \in CompiledPaths(tree) |-> Absent]
    /\ events = <<>>
    /\ tasks = <<>>
    /\ dispatched = [write |-> 0, delete |-> 0]
    /\ changes = 0
    /\ faults = 0
    /\ crashed = FALSE

Init ==
    /\ TranspilerInit(PlainTree)
    /\ PathIdle
    /\ ServerInit
    /\ LoaderIdle
    /\ ScriptInit

InitSiblings ==
    /\ TranspilerInit(SiblingTree)
    /\ PathIdle
    /\ ServerInit
    /\ LoaderIdle
    /\ ScriptInit

InitServer ==
    /\ TranspilerIdle
    /\ PathIdle
    /\ ServerInit
    /\ LoaderIdle
    /\ ScriptInit

InitLoader ==
    /\ TranspilerIdle
    /\ PathIdle
    /\ ServerInit
    /\ LoaderInit
    /\ ScriptInit

Next ==
    \/ Watch
    \/ \E f \in Watched : ScanAdd(f)
    \/ Ready
    \/ \E f \in Watched : WriteSource(f)
    \/ \E f \in Watched : RemoveSource(f)
    \/ Emit
    \/ \E i \in DOMAIN tasks : EnsureDirectoryExists(i)
    \/ \E i \in DOMAIN tasks : ReadFile(i)
    \/ \E i \in DOMAIN tasks : WriteFile(i)
    \/ \E i \in DOMAIN tasks : DispatchWrite(i)
    \/ \E i \in DOMAIN tasks : Rm(i)
    \/ \E i \in DOMAIN tasks : DispatchDelete(i)

\* the Transpiler over two files of different stems
Spec == Init /\ [][Next]_vars

\* the Transpiler over two sibling files of the same stem
SpecSiblings == InitSiblings /\ [][Next]_vars

\* the start() and stop() calls of the instances of one process
SpecServer == InitServer /\ [][NextServer]_vars

\* a ModuleLoader loading and then watching a tree of handler files
SpecLoader == InitLoader /\ [][NextLoader]_vars

InitScript ==
    /\ TranspilerIdle
    /\ PathIdle
    /\ ServerInit
    /\ LoaderIdle
    /\ ScriptInit

\* one Script, the calls made to it and the promises of its coders
SpecScript == InitScript /\ [][NextScript]_vars

---------------------------------------------------------------------------
\* Properties of the Transpiler.

\* the tasks started for source file f
TasksOf(f) == { i \in DOMAIN tasks : tasks[i].file = f }

\* no event for f is still waiting to be emitted
NonePending(f) == \A k \in DOMAIN events : events[k].path # f

\* the compiled output of f, as the "all" listener addresses it
CompiledOf(f) == compiledFiles[DestinationPath(sourcePath, destinationPath, f)]

\* every task started for f is a transpile that ran to its end
AllTranspiled(f) ==
    /\ TasksOf(f) # {}
    /\ \A i \in TasksOf(f) :
          tasks[i].kind = "transpileFile" /\ tasks[i].pc = "done"

\* C1: per-file ordering. Once every add/change event of a file has been
\* emitted and every transpile started for it has completed, the compiled
\* output is the transpilation of the latest source content.
C1_LatestContentWins ==
    \A f \in Watched :
        (NonePending(f) /\ AllTranspiled(f) /\ sourceFiles[f] # Absent)
            => CompiledOf(f) = TranspileModule(sourceFiles[f])

\* C2: initial load. When watch() has resolved (and nothing has changed
\* since), every file that existed before it is compiled in the destination.
C2_InitialLoadTranspiled ==
    (watcher = "watching" /\ changes = 0)
        => \A f \in Watched :
              sourceFiles[f] # Absent
                  => CompiledOf(f) = TranspileModule(sourceFiles[f])

\* C5: failure isolation. No task started by the listener ends in a rejection
\* nobody handles, and the process keeps running.
C5_NoUnhandledRejection ==
    /\ ~crashed
    /\ \A i \in DOMAIN tasks : tasks[i].pc # "rejected"

\* the unlink of f has been processed: its removal ran to its end, and
\* nothing else started for f is still running or failed
UnlinkProcessed(f) ==
    /\ \E i \in TasksOf(f) : tasks[i].kind = "unlink"
    /\ \A i \in TasksOf(f) : tasks[i].pc = "done"

\* C6: removal. Once the source file is gone, its unlink has been processed
\* and every transpile started for it has completed, no compiled output of
\* it is left in the destination.
C6_RemovedStaysRemoved ==
    \A f \in Watched :
        (sourceFiles[f] = Absent /\ NonePending(f) /\ UnlinkProcessed(f))
            => CompiledOf(f) = Absent

\* C10: distinct source files have distinct compiled paths, so that a step
\* of a task of one file never replaces or removes the output of another.
C10_NoCrossFileOverwrite ==
    [][\A i \in DOMAIN tasks :
          (tasks'[i].pc # tasks[i].pc /\ compiledFiles' # compiledFiles)
              => \/ compiledFiles[tasks[i].dest] = Absent
                 \/ compiledFiles[tasks[i].dest].of = tasks[i].file]_vars

\* the tasks of a kind that reach pc in this step
Reaching(kind, pc) ==
    { i \in DOMAIN tasks :
        /\ tasks[i].kind = kind
        /\ tasks[i].pc # pc
        /\ tasks'[i].pc = pc }

\* C11: notifications follow their file-system effect. A task dispatches
\* its one "write" (transpile) or "delete" (unlink) only from the step after
\* its destination was written, or removed or found absent; nothing else
\* dispatches but watch() at "ready"; a task that failed never dispatches.
C11_DispatchFollowsEffect ==
    [][/\ dispatched'.write - dispatched.write =
             Cardinality(Reaching("transpileFile", "done"))
                 + (IF watcher = "scanning" /\ watcher' = "watching"
                    THEN 1 ELSE 0)
       /\ dispatched'.delete - dispatched.delete =
             Cardinality(Reaching("unlink", "done"))
       /\ \A i \in Reaching("transpileFile", "done")
                   \cup Reaching("unlink", "done") :
             tasks[i].pc = "dispatchEvent"
       /\ \A i \in Reaching("transpileFile", "dispatchEvent") :
             /\ tasks[i].result # Absent
             /\ compiledFiles'[tasks[i].dest] = tasks[i].result
       /\ \A i \in Reaching("unlink", "dispatchEvent") :
             compiledFiles'[tasks[i].dest] = Absent
       /\ \A i \in DOMAIN tasks :
             tasks[i].pc \in {"rejected", "done"}
                 => tasks'[i].pc = tasks[i].pc]_vars

\* a transpile and an unlink have each dispatched their event, and a task
\* that failed has dispatched none
C11_Witness ==
    /\ \E i, j, k \in DOMAIN tasks :
          /\ tasks[i].kind = "transpileFile" /\ tasks[i].pc = "done"
          /\ tasks[j].kind = "unlink" /\ tasks[j].pc = "done"
          /\ tasks[k].pc = "rejected"
    /\ dispatched = [write |-> 2, delete |-> 1]

---------------------------------------------------------------------------
\* The destination path of a watched file, for a choice of roots and files.

Slash == <<"/">>

\* (sourcePath, destinationPath) pairs a Transpiler is constructed with;
\* counterfact() passes <basePath>/paths and <basePath>/.cache
Roots ==
    { [from |-> <<"s">>, to |-> <<"o">>],
      [from |-> <<"p", "/", "s">>, to |-> <<"p", "/", ".", "c">>],
      [from |-> <<"p", ".", "t", "s", "/", "s">>,
       to |-> <<"p", ".", "t", "s", "/", ".", "c">>] }

\* directories below the source root, each ending with its "/"
Directories ==
    { <<>>,
      <<"d", "/">>,
      <<"s", "/">>,
      <<"d", "/", "e", "/">>,
      <<"d", ".", "t", "s", "/">> }

Stems == { <<"a">>, <<"a", ".", "t", "s", "x">> }

\* the extensions of the glob <sourcePath>/**/*.{js,mjs,ts,mts}
Extensions ==
    { <<"j", "s">>, <<"m", "j", "s">>, <<"t", "s">>, <<"m", "t", "s">> }

NoPath == [dir |-> <<>>, stem |-> <<>>, ext |-> <<>>]

\* the path chokidar reports for a file of the tree
ReportedPath(file) ==
    sourcePath \o Slash \o file.dir \o file.stem \o <<".">> \o file.ext

\* the "all" listener and transpileFile compute the destination of a file
ComputeDestination(file) ==
    /\ watcher = "none"
    /\ pathIn' = file
    /\ pathOut' =
          [listener |-> DestinationPath(sourcePath, destinationPath,
                                        ReportedPath(file)),
           written |-> WritePath(sourcePath, destinationPath,
                                 ReportedPath(file))]
    /\ UNCHANGED <<transpilerVars, serverVars, loaderVars, scriptVars>>

InitPaths ==
    /\ \E r \in Roots : sourcePath = r.from /\ destinationPath = r.to
    /\ watcher = "none"
    /\ scanned = {}
    /\ sourceFiles = <<>>
    /\ compiledFiles = <<>>
    /\ events = <<>>
    /\ tasks = <<>>
    /\ dispatched = [write |-> 0, delete |-> 0]
    /\ changes = 0
    /\ faults = 0
    /\ crashed = FALSE
    /\ pathIn = NoPath
    /\ pathOut = [listener |-> <<>>, written |-> <<>>]
    /\ ServerInit
    /\ LoaderIdle
    /\ ScriptInit

NextPaths ==
    \E d \in Directories, st \in Stems, e \in Extensions :
        ComputeDestination([dir |-> d, stem |-> st, ext |-> e])

\* the destination path computation over roots, directories, stems, extensions
SpecPaths == InitPaths /\ [][NextPaths]_vars

\* the mirror image of a file: same directories and stem under the
\* destination root, the extension ts becoming js
MirrorPath(file) ==
    destinationPath \o Slash \o file.dir \o file.stem \o <<".">>
        \o (IF file.ext = <<"t", "s">> THEN <<"j", "s">> ELSE file.ext)

\* C9: the compiled directory mirrors the source tree. The destination of
\* <sourcePath>/<rel>.<ext> is <destinationPath>/<rel> with only the file's
\* own extension .ts changed to .js.
C9_DestinationMirrorsSource ==
    pathIn # NoPath
        => /\ pathOut.listener = MirrorPath(pathIn)
           /\ pathOut.written = MirrorPath(pathIn)

---------------------------------------------------------------------------
\* Properties of start() and stop().

\* the listeners a call opened
ListenersOf(c) == { k \in DOMAIN listeners : listeners[k].call = c }

\* C7: teardown. A stop() that has settled has stopped the transpiler's
\* watcher, then the module loader's watcher, then terminated the HTTP
\* listener, and has resolved without error.
C7_StopTearsDown ==
    \A c \in DOMAIN calls :
        (calls[c].fn = "stop" /\ calls[c].state # "pending")
            => /\ calls[c].state = "resolved"
               /\ calls[c].log =
                     << [object |-> "transpiler", method |-> "stopWatching"],
                        [object |-> "moduleLoader", method |-> "stopWatching"],
                        [object |-> "httpTerminator", method |-> "terminate"] >>

\* C8: startup ordering. A listener is opened only by a start() for which
\* transpiler.watch(), moduleLoader.load() and moduleLoader.watch() have
\* resolved, in that order; a start() that rejected opened no listener and
\* recorded no terminator.
C8_ListenAfterStartup ==
    /\ \A k \in DOMAIN listeners :
          calls[listeners[k].call].log =
              << [object |-> "transpiler", method |-> "watch"],
                 [object |-> "moduleLoader", method |-> "load"],
                 [object |-> "moduleLoader", method |-> "watch"] >>
    /\ \A c \in DOMAIN calls :
          (calls[c].fn = "start" /\ calls[c].state = "rejected")
              => /\ ListenersOf(c) = {}
                 /\ httpTerminator # 0 => listeners[httpTerminator].call # c

\* one start() has opened its listener and another has rejected
C8_Witness ==
    \E c, d \in DOMAIN calls :
        /\ calls[c].fn = "start" /\ calls[c].state = "resolved"
        /\ ListenersOf(c) # {} /\ httpTerminator \in ListenersOf(c)
        /\ calls[d].fn = "start" /\ calls[d].state = "rejected"
        /\ calls[d].log # <<>>

\* the objects of a class
ObjectsOf(class) == { o \in DOMAIN heap : heap[o].class = class }

Built == { i \in Instances : wiring[i] # NotBuilt }

\* C12: one Registry and one ContextRegistry per instance. The Dispatcher
\* and the ModuleLoader of an instance were given the same Registry and the
\* same ContextRegistry, the ContextRegistry returned to the caller is that
\* object, and as many Registry and ContextRegistry objects exist as
\* instances were built.
C12_SharedRegistries ==
    /\ \A i \in Built :
          LET w == wiring[i]
          IN  /\ w.registry \in ObjectsOf("Registry")
              /\ w.contextRegistry \in ObjectsOf("ContextRegistry")
              /\ heap[w.dispatcher].class = "Dispatcher"
              /\ heap[w.moduleLoader].class = "ModuleLoader"
              /\ heap[w.dispatcher].registry = w.registry
              /\ heap[w.moduleLoader].registry = w.registry
              /\ heap[w.dispatcher].contextRegistry = w.contextRegistry
              /\ heap[w.moduleLoader].contextRegistry = w.contextRegistry
              /\ w.returned = w.contextRegistry
    /\ Cardinality(ObjectsOf("Registry")) = Cardinality(Built)
    /\ Cardinality(ObjectsOf("ContextRegistry")) = Cardinality(Built)

\* two instances are built and one of them has started and been stopped
C12_Witness ==
    /\ Cardinality(Built) >= 2
    /\ \E c, d \in DOMAIN calls :
          /\ calls[c].fn = "start" /\ calls[c].state = "resolved"
          /\ calls[d].fn = "stop" /\ calls[d].state # "pending"
          /\ calls[c].inst = calls[d].inst

\* C13: every listener can still be terminated. A listener that is open
\* is the one the module's httpTerminator terminates, so that a stop() can
\* close it.
C13_OpenListenerHasTerminator ==
    \A k \in DOMAIN listeners :
        listeners[k].open => httpTerminator = k

---------------------------------------------------------------------------
\* Properties of the Script.

\* the names under which the exports map and the imports map hold an entry
ExportNames == { n \in NameSet : scriptExports[n] # 0 }

ImportNames == { n \in NameSet : scriptImports[n] # NoImport }

\* the cache key an export statement was built under
KeyOf(statement) ==
    ExportKey(statement.id, statement.isType, statement.isDefault)

\* the statements built under a cache key: one coder.delegate() call each
StatementsOf(key) ==
    { s \in DOMAIN statements : KeyOf(statements[s]) = key }

\* C14: name uniqueness. No name is a key of both the exports map and the
\* imports map, every export statement ever set is still the entry under
\* its name, and every import that has returned still has its entry under
\* the name it returned.
C14_DistinctNames ==
    /\ ExportNames \cap ImportNames = {}
    /\ \A s \in DOMAIN statements : scriptExports[statements[s].key] = s
    /\ \A k \in ImportKeys :
          (/\ scriptCache[k] # NoName
           /\ \A i \in Running("import") :
                 ImportKey(stack[i].coder, stack[i].isType,
                           stack[i].isDefault) # k)
              => /\ scriptImports[scriptCache[k]].id = k.id
                 /\ scriptImports[scriptCache[k]].isType = k.isType
                 /\ scriptImports[scriptCache[k]].isDefault = k.isDefault

\* C15: export is idempotent per cache key. An export() the cache answered
\* returned the name the first call chose, under which the one statement of
\* the key is (or is about to be) set; no key has a second statement, so
\* no second entry and no second coder.delegate(); in particular there is
\* at most one default export.
C15_ExportIdempotent ==
    /\ \A k \in ExportKeys :
          /\ Cardinality(StatementsOf(k)) <= 1
          /\ \A s \in StatementsOf(k) : statements[s].key = scriptCache[k]
    /\ lastCall # NoCall => lastCall.name = scriptCache[lastCall.key]
    /\ Cardinality({ s \in DOMAIN statements : statements[s].isDefault })
          <= 1

\* two exports are set, one of them the default, and the last export()
\* was a repeated call that the cache answered with the name of its entry
C15_Witness ==
    /\ lastCall # NoCall
    /\ \E s, d \in DOMAIN statements :
          /\ statements[d].isDefault /\ ~statements[s].isDefault
          /\ KeyOf(statements[s]) = lastCall.key
          /\ lastCall.name = statements[s].key
          /\ scriptExports[lastCall.name] = s

\* C16: when the promise of finished() resolves, no export of the script
\* is in progress.
C16_FinishedMeansDone ==
    [][(finishedState = "pending" /\ finishedState' = "resolved")
          => ~IsInProgress']_vars

\* C17: a failed export is recorded. A statement whose coder.delegate() or
\* write() failed is done, holds the error and an error comment as its
\* code, and has the name it is keyed under.
C17_FailedExportRecorded ==
    \A s \in DOMAIN statements :
        statements[s].error
            => /\ statements[s].done
               /\ statements[s].code = "error comment"
               /\ statements[s].name = statements[s].key

---------------------------------------------------------------------------
\* Properties of the ModuleLoader and the Registry.

\* the request path of a handler file: "/" and its path without extension
RequestPath(file) == <<"/">> \o StripExtension(file)

\* a file on disk has exactly this path and exports the method
FileExports(method, path) ==
    \E f \in HandlerFiles :
        /\ handlerFiles[f].exists
        /\ RequestPath(f) = path
        /\ method \in handlerFiles[f].exports

\* no file or directory name of the tree is a parameter marker
LiteralTree ==
    \A f \in HandlerFiles :
        handlerFiles[f].exists => ParameterCount(Route(f)) = 0

\* C3: hot add. While no handler file for a route has existed,
\* exists(method, route) is false; and when the loader dispatches "add" for
\* a file added at runtime, exists is true for its route and every method
\* it exports.
C3_HotAddRegistered ==
    [][/\ \A method \in Methods, path \in RequestPaths :
             (\A f \in HandlerFiles :
                 <<f, method>> \in seen'
                     => ~Matches(Route(f), Segments(path)))
                 => ~Exists(registry', method, path)
       /\ (Len(emitted') > Len(emitted)
             /\ emitted'[Len(emitted')].type = "add")
             => \A method \in emitted'[Len(emitted')].exports :
                   Exists(registry', method,
                          RequestPath(emitted'[Len(emitted')].file))]_vars

\* the loader, loaded and watching, has just dispatched "add" for l/a.mjs,
\* which load() never saw, and GET /l/a now exists
C3_Witness ==
    /\ loader = "watching"
    /\ FileLA \notin loaded
    /\ emitted # <<>>
    /\ emitted[Len(emitted)].type = "add"
    /\ emitted[Len(emitted)].file = FileLA
    /\ "GET" \in emitted[Len(emitted)].exports
    /\ Exists(registry, "GET", <<"/", "l", "/", "a">>)

\* C4 as stated: after load(), exists(method, path) iff a file with that
\* relative path (without extension) exists and exports the method.
C4_ExistsIffFileExports ==
    loader = "loaded"
        => \A method \in Methods, path \in RequestPaths :
              Exists(registry, method, path) <=> FileExports(method, path)

\* C4 amended: the same, for a tree with no parameter-named file or
\* directory.
C4_LiteralTreeExistsIffFileExports ==
    (loader = "loaded" /\ LiteralTree)
        => \A method \in Methods, path \in RequestPaths :
              Exists(registry, method, path) <=> FileExports(method, path)

\* the tree of the loader's test, loaded: h exports GET only, l/a exists
C4_Witness ==
    /\ loader = "loaded"
    /\ LiteralTree
    /\ handlerFiles[FileH] = Module({"GET"})
    /\ handlerFiles[FileLA].exists
    /\ Exists(registry, "GET", <<"/", "h">>)
    /\ ~Exists(registry, "POST", <<"/", "h">>)
    /\ ~Exists(registry, "GET", <<"/", "g">>)
    /\ Exists(registry, "GET", <<"/", "l", "/", "a">>)

====
